---- MODULE Spec2Model ----
(***************************************************************************)
(* The timed exam-taking session of the portal: the ExamPanel component    *)
(* (src/src/pages/ExamPanel.tsx), its countdown, its answer list, the      *)
(* local-storage side-store and the submission mutation.                   *)
(*                                                                         *)
(* One action is one browser event handled to completion: the handler, the *)
(* re-render it causes and the effects of that render.  A handler reads    *)
(* the state of the render that created it; the interval callback of the   *)
(* timer effect keeps the handleSubmit of the render in which the effect   *)
(* ran, so the model stores that render's values in `timer`.               *)
(***************************************************************************)
EXTENDS Integers, Sequences, FiniteSets, TLC

\* ------------------------------------------------------------------ bounds
MaxDuration == 1
MaxQuestions == 2
MaxLoadDelay == 2
MaxRevisions == 1
MaxMissed == 2

\* ------------------------------------------------------- program constants
SecondsPerMinute == 60
InitialTimeLeft == 0
InitialQuestionIndex == 0

ExamIds == {"e1", "e2"}
Values == {"B", "C"}
StaleTime == 300
Retry == 1
MaxCalls == MaxRevisions + 2
ResumeHorizon == SecondsPerMinute * MaxDuration + MaxLoadDelay + 2
MaxNow == StaleTime + 2 * SecondsPerMinute * MaxDuration + 4 * MaxLoadDelay

\* ------------------------------------------------------------- optionals
\* null / undefined is the empty tuple, a present value a 1-tuple
None == <<>>
Some(x) == <<x>>
IsSome(o) == Len(o) = 1
Get(o) == o[1]

\* ------------------------------------------------------------ conversions
NaN == -1

RECURSIVE NumToString(_)
\* Number.prototype.toString of a non-negative integer: its decimal digits
NumToString(n) ==
    IF n < 10 THEN <<n>> ELSE Append(NumToString(n \div 10), n % 10)

RECURSIVE ParseDigits(_, _)
ParseDigits(s, acc) ==
    IF s = <<>> THEN acc ELSE ParseDigits(Tail(s), 10 * acc + Head(s))

\* parseInt of a digit string; NaN when there is no digit
ParseInt(s) == IF s = <<>> THEN NaN ELSE ParseDigits(s, 0)

\* the _id of the question at an index of the paper
QuestionId(i) == <<"q", i>>

\* JSON.stringify of the answer list: one object text per entry, in order,
\* the number written in decimal
JSONStringify(as) ==
    [k \in 1..Len(as) |->
        <<NumToString(as[k].questionIndex), as[k].selectedOption, as[k].question>>]

\* JSON.parse of such a text
JSONParse(txt) ==
    [k \in 1..Len(txt) |->
        [questionIndex |-> ParseInt(txt[k][1]),
         selectedOption |-> txt[k][2],
         question |-> txt[k][3]]]

\* ------------------------------------------------------------- side-store
\* the four exam_<id>_* keys of one exam; an absent key is None
EmptyStore ==
    [answers |-> None, questionIndex |-> None, timeLeft |-> None, startTime |-> None]

VARIABLES
    now,                  \* wall clock, in seconds
    localStorage,         \* exam id -> the exam_<id>_* entries
    queryCache,           \* exam id -> cached query data and its time (optional)
    fetch,                \* start time of the query fetch in flight (optional)
    serverPaper,          \* exam id -> the definition the service returns
    page,                 \* "closed", "exam" (ExamPanel mounted), "login", "dashboard", "exams"
    id,                   \* route parameter of the mounted ExamPanel
    user,                 \* an authenticated user is present
    examPaper,            \* data of the query (optional)
    timeLeft,
    currentQuestionIndex,
    answers,
    isSubmitting,
    startTime,
    timer,                \* the running interval (optional): the values its handleSubmit closed over
    calls,                \* submission calls in flight
    pendingRedirect,      \* the 2000 ms redirect of the already-submitted case is scheduled
    lastEvent,            \* what the last handler did
    everSet,              \* history: exam id -> question index -> last value set (optional)
    attemptStart,         \* history: exam id -> start of the first session of the attempt (optional)
    expiries,             \* history: expiry callbacks run in the mounted session
    authStore,            \* the 'user' and 'token' keys of local storage: present, the user valid, whose they are
    token,                \* AuthProvider holds a token
    returnPath,           \* location.state.from of the last navigation (optional exam id)
    failureCount,         \* failed requests of the query's current fetch
    acknowledged          \* history: exam id -> a submission of the attempt was acknowledged

browserVars == <<now, localStorage, queryCache, fetch, serverPaper, page, id, user>>
panelVars == <<examPaper, timeLeft, currentQuestionIndex, answers, isSubmitting, startTime, timer>>
historyVars == <<lastEvent, everSet, attemptStart, expiries>>
routeVars == <<authStore, token, returnPath, failureCount, acknowledged>>
vars == <<browserVars, panelVars, calls, pendingRedirect, historyVars, routeVars>>

\* ------------------------------------------------------- stored session
Students == {"s1", "s2"}

\* local storage without the 'user' and 'token' keys
NoSession == [user |-> FALSE, token |-> FALSE, valid |-> FALSE, student |-> "none"]

\* local storage with the token and the JSON text of the user of student s
StoredSession(s) == [user |-> TRUE, token |-> TRUE, valid |-> TRUE, student |-> s]

\* ----------------------------------------------------------------- events
\* what a handler did: the operation, its outcome, whether window.confirm was
\* asked, the notification shown and the answers of the call it issued
Event(op, outcome, asked, toast, payload) ==
    [op |-> op, outcome |-> outcome, asked |-> asked, toast |-> toast,
     payload |-> payload]

\* an event that neither submits nor completes a submission
Quiet == Event("other", "none", FALSE, "none", None)

\* ------------------------------------------------------------ Answer list
\* answers.findIndex(a => a.questionIndex === i), 1-based; 0 when there is none
FindIndex(as, i) ==
    IF \E k \in 1..Len(as) : as[k].questionIndex = i
    THEN CHOOSE k \in 1..Len(as) :
            /\ as[k].questionIndex = i
            /\ \A j \in 1..(k - 1) : as[j].questionIndex # i
    ELSE 0

\* answers.find(a => a.questionIndex === i)?.selectedOption || ''
GetAnswer(as, i) ==
    IF FindIndex(as, i) = 0 THEN "" ELSE as[FindIndex(as, i)].selectedOption

NewAnswer(i, v) ==
    [questionIndex |-> i, selectedOption |-> v, question |-> QuestionId(i)]

\* handleAnswerChange without the overwrite branch
SetAnswer_AlwaysAppend(as, i, v) == Append(as, NewAnswer(i, v))

\* the list handleAnswerChange passes to setAnswers
SetAnswer(as, i, v) ==
    IF FindIndex(as, i) # 0
    THEN [as EXCEPT ![FindIndex(as, i)] = NewAnswer(i, v)]
    ELSE Append(as, NewAnswer(i, v))

\* a save effect that writes the answers only
SaveEffect_AnswersOnly(store, as, idx) ==
    [store EXCEPT !.answers = Some(JSONStringify(as)),
                  !.questionIndex = IF IsSome(@) THEN @ ELSE Some(NumToString(idx))]

\* the save effect: both keys are written from the rendered state
SaveEffect(store, as, idx) ==
    [store EXCEPT !.answers = Some(JSONStringify(as)),
                  !.questionIndex = Some(NumToString(idx))]

\* the writes of the timer effect body
TimerEffectSave(store, duration, start) ==
    [store EXCEPT !.timeLeft = Some(NumToString(duration)),
                  !.startTime = Some(NumToString(start))]

\* the cleanup the timer effect returns
TimerEffectCleanup(store) ==
    [store EXCEPT !.timeLeft = None, !.startTime = None]

\* an onSuccess that removes the timer keys only
ClearAttempt_TimerKeysOnly(store) ==
    [store EXCEPT !.timeLeft = None, !.startTime = None]

\* the removals of submitMutation.onSuccess
ClearAttempt(store) ==
    [store EXCEPT !.answers = None, !.questionIndex = None,
                  !.timeLeft = None, !.startTime = None]

\* a body with one entry per question index, empty when there is no answer
Payload_EveryQuestion(as) ==
    [k \in 1..MaxQuestions |->
        [questionIndex |-> k - 1, selectedOption |-> GetAnswer(as, k - 1)]]

\* the answers of the submitted body
Payload(as) ==
    [k \in 1..Len(as) |->
        [questionIndex |-> as[k].questionIndex, selectedOption |-> as[k].selectedOption]]

\* the values a handleSubmit created by the current render closes over
Closure ==
    [answers |-> answers, isSubmitting |-> isSubmitting, user |-> user,
     examPaper |-> examPaper]

\* handleSubmit without the check for unanswered questions
HandleSubmit_NoConfirm(c, confirmed) ==
    IF c.isSubmitting THEN [kind |-> "ignored", asked |-> FALSE]
    ELSE IF ~c.user \/ ~IsSome(c.examPaper) THEN [kind |-> "login", asked |-> FALSE]
    ELSE [kind |-> "issued", asked |-> FALSE]

\* handleSubmit run on the values c it closed over; confirmed is the answer
\* window.confirm gives if it is asked
HandleSubmit(c, confirmed) ==
    IF c.isSubmitting THEN [kind |-> "ignored", asked |-> FALSE]
    ELSE IF ~c.user \/ ~IsSome(c.examPaper) THEN [kind |-> "login", asked |-> FALSE]
    ELSE IF Len(c.answers) < Get(c.examPaper).questions
         THEN IF confirmed THEN [kind |-> "issued", asked |-> TRUE]
                           ELSE [kind |-> "declined", asked |-> TRUE]
         ELSE [kind |-> "issued", asked |-> FALSE]

\* the timer effect of a render whose examPaper is p
TimerRuns(p) == IsSome(p) /\ Get(p).duration # 0

Duration(p) == Get(p).duration * SecondsPerMinute


\* an unmount whose cleanup leaves the interval running
PanelGone_TimerKeeps ==
    /\ examPaper' = None
    /\ timeLeft' = InitialTimeLeft
    /\ currentQuestionIndex' = InitialQuestionIndex
    /\ answers' = <<>>
    /\ isSubmitting' = FALSE
    /\ startTime' = 0
    /\ timer' = timer
    /\ expiries' = 0
    /\ fetch' = None

\* the component is unmounted: its state and its query observer are gone
PanelGone ==
    /\ examPaper' = None
    /\ timeLeft' = InitialTimeLeft
    /\ currentQuestionIndex' = InitialQuestionIndex
    /\ answers' = <<>>
    /\ isSubmitting' = FALSE
    /\ startTime' = 0
    /\ timer' = None
    /\ expiries' = 0
    /\ fetch' = None

PanelSame ==
    UNCHANGED <<examPaper, timeLeft, currentQuestionIndex, answers, isSubmitting,
                startTime, timer, expiries, fetch>>

\* navigate(target): a mounted exam panel is unmounted and the cleanup of
\* its timer effect runs; otherwise only the route changes
NavigateTo(target) ==
    /\ page' = target
    /\ returnPath' = IF target = "login" THEN Some(id) ELSE None
    /\ IF page = "exam"
       THEN /\ localStorage' = [localStorage EXCEPT ![id] =
                    IF TimerRuns(examPaper) THEN TimerEffectCleanup(@) ELSE @]
            /\ PanelGone
       ELSE /\ UNCHANGED localStorage
            /\ PanelSame

Papers(maxq) ==
    [duration : 1..MaxDuration, questions : 1..maxq, rev : {0}]

CacheEntry(p, t) == Some([data |-> p, updatedAt |-> t])

\* the query data is older than staleTime
IsStale(entry) == now - Get(entry).updatedAt >= StaleTime

TypeOK ==
    /\ now \in 0..MaxNow
    /\ page \in {"boot", "closed", "exam", "login", "dashboard", "exams"}
    /\ id \in ExamIds
    /\ user \in BOOLEAN
    /\ token \in BOOLEAN
    /\ authStore \in [user : BOOLEAN, token : BOOLEAN, valid : BOOLEAN,
                      student : Students \cup {"none"}]
    /\ timeLeft \in 0..(MaxDuration * SecondsPerMinute)
    /\ currentQuestionIndex \in Nat
    /\ isSubmitting \in BOOLEAN
    /\ pendingRedirect \in BOOLEAN
    /\ Len(calls) <= MaxCalls
    /\ failureCount \in 0..(Retry + 1)
    /\ returnPath \in {None} \cup {Some(e) : e \in ExamIds}

\* The browser before the exam panel of exam e1 is opened: nothing stored
\* for that exam, one of leftovers stored for the other; the definition is
\* not cached, cached and fresh, or cached and stale.
InitLeft(maxq, cacheStates, leftovers) ==
    /\ now = 0
    /\ \E left \in leftovers :
          localStorage = [e \in ExamIds |-> IF e = "e1" THEN EmptyStore ELSE left]
    /\ \E p \in Papers(maxq) : serverPaper = [e \in ExamIds |-> p]
    /\ \E c \in cacheStates :
          queryCache = [e \in ExamIds |->
                CASE e = "e1" /\ c = "fresh" -> CacheEntry(serverPaper[e], 0)
                  [] e = "e1" /\ c = "stale" -> CacheEntry(serverPaper[e], 0 - StaleTime)
                  [] OTHER -> None]
    /\ fetch = None
    /\ page = "closed"
    /\ id = "e1"
    /\ user = TRUE
    /\ examPaper = None
    /\ timeLeft = InitialTimeLeft
    /\ currentQuestionIndex = InitialQuestionIndex
    /\ answers = <<>>
    /\ isSubmitting = FALSE
    /\ startTime = 0
    /\ timer = None
    /\ calls = <<>>
    /\ pendingRedirect = FALSE
    /\ lastEvent = Quiet
    /\ everSet = [e \in ExamIds |-> [i \in 0..(MaxQuestions - 1) |-> None]]
    /\ attemptStart = [e \in ExamIds |-> None]
    /\ expiries = 0
    /\ authStore = StoredSession("s1")
    /\ token = TRUE
    /\ returnPath = None
    /\ failureCount = 0
    /\ acknowledged = [e \in ExamIds |-> FALSE]

\* the same with nothing stored for any exam
Init0(maxq, cacheStates) == InitLeft(maxq, cacheStates, {EmptyStore})

Init == Init0(MaxQuestions, {"none", "fresh"})

\* ---------------------------------------------------------------- actions
\* a restore effect that runs after the first save effect
RestoredAnswers_AfterSave(store) ==
    JSONParse(Get(SaveEffect(store, <<>>, InitialQuestionIndex).answers))

\* the list the restore effect passes to setAnswers; the initial state when
\* nothing is saved
RestoredAnswers(store) ==
    IF IsSome(store.answers) THEN JSONParse(Get(store.answers)) ELSE <<>>

\* the index the restore effect passes to setCurrentQuestionIndex
RestoredIndex(store) ==
    IF IsSome(store.questionIndex)
    THEN ParseInt(Get(store.questionIndex)) ELSE InitialQuestionIndex

\* ExamPanel is mounted for exam e while the query cache holds entry: first
\* render and its effects (timer, restore, save), then the re-render caused
\* by the restore effect and its save effect.
MountPanel(e, entry) ==
    LET cached == IF IsSome(entry) THEN Some(Get(entry).data) ELSE None
        store == localStorage[e]
        runs == TimerRuns(cached)
        afterTimer == IF runs THEN TimerEffectSave(store, Duration(cached), now) ELSE store
        restoredAnswers == RestoredAnswers(store)
        restoredIndex == RestoredIndex(store)
        firstSave == SaveEffect(afterTimer, <<>>, InitialQuestionIndex)
        secondSave == SaveEffect(firstSave, restoredAnswers, restoredIndex)
    IN /\ page' = "exam"
       /\ returnPath' = None
       /\ id' = e
       /\ startTime' = now
       /\ examPaper' = cached
       /\ fetch' = IF ~IsSome(entry) \/ IsStale(entry) THEN Some(now) ELSE None
       /\ failureCount' = 0
       /\ timeLeft' = IF runs THEN Duration(cached) ELSE InitialTimeLeft
       /\ timer' = IF runs
                   THEN Some([answers |-> <<>>, isSubmitting |-> FALSE,
                              user |-> user, examPaper |-> cached])
                   ELSE None
       /\ answers' = restoredAnswers
       /\ currentQuestionIndex' = restoredIndex
       /\ isSubmitting' = FALSE
       /\ localStorage' = [localStorage EXCEPT ![e] = secondSave]
       /\ attemptStart' = [attemptStart EXCEPT ![e] =
                             IF IsSome(@) THEN @ ELSE Some(now)]
       /\ expiries' = 0

\* The route /exam-panel/:id is opened by a navigation inside the running
\* application.
Mount(e, from) ==
    /\ page \in from
    /\ user
    /\ MountPanel(e, queryCache[e])
    /\ lastEvent' = Quiet
    /\ UNCHANGED <<now, queryCache, serverPaper, user, calls, pendingRedirect, everSet,
                   authStore, token, acknowledged>>

\* The timer effect of the render in which examPaper became p; prevRan tells
\* whether the effect of the previous examPaper left a cleanup to run.
RunTimerEffect(p, prevRan) ==
    LET cleaned == IF prevRan THEN TimerEffectCleanup(localStorage[id])
                   ELSE localStorage[id]
    IN IF TimerRuns(p)
       THEN /\ timeLeft' = Duration(p)
            /\ timer' = Some([Closure EXCEPT !.examPaper = p])
            /\ localStorage' = [localStorage EXCEPT ![id] =
                                    TimerEffectSave(cleaned, Duration(p), startTime)]
       ELSE /\ timer' = None
            /\ localStorage' = [localStorage EXCEPT ![id] = cleaned]
            /\ UNCHANGED timeLeft

\* The first fetch of the exam definition succeeds.
ExamLoaded ==
    /\ page = "exam"
    /\ IsSome(fetch)
    /\ ~IsSome(examPaper)
    /\ LET p == Some(serverPaper[id])
       IN /\ examPaper' = p
          /\ queryCache' = [queryCache EXCEPT ![id] = CacheEntry(Get(p), now)]
          /\ RunTimerEffect(p, FALSE)
    /\ fetch' = None
    /\ failureCount' = 0
    /\ lastEvent' = Quiet
    /\ UNCHANGED <<now, serverPaper, page, id, user, currentQuestionIndex, answers,
                   isSubmitting, startTime, calls, pendingRedirect, everSet,
                   attemptStart, expiries, authStore, token, returnPath, acknowledged>>

\* A second passes while the definition is being fetched.
LoadDelay ==
    /\ page = "exam"
    /\ IsSome(fetch)
    /\ ~IsSome(examPaper)
    /\ now - Get(fetch) < MaxLoadDelay
    /\ now < MaxNow
    /\ now' = now + 1
    /\ lastEvent' = Quiet
    /\ UNCHANGED <<localStorage, queryCache, fetch, serverPaper, page, id, user, panelVars,
                   calls, pendingRedirect, everSet, attemptStart, expiries, routeVars>>

\* The student picks or types an answer for the question shown.
HandleAnswerChange(v) ==
    /\ page = "exam"
    /\ IsSome(examPaper)
    /\ answers' = SetAnswer(answers, currentQuestionIndex, v)
    /\ localStorage' = [localStorage EXCEPT ![id] =
                            SaveEffect(@, answers', currentQuestionIndex)]
    /\ everSet' = [everSet EXCEPT ![id][currentQuestionIndex] = Some(v)]
    /\ lastEvent' = Quiet
    /\ UNCHANGED <<now, queryCache, fetch, serverPaper, page, id, user, examPaper,
                   timeLeft, currentQuestionIndex, isSubmitting, startTime, timer, calls,
                   pendingRedirect, attemptStart, expiries, routeVars>>

\* a handleNext without the test for the last question
NextIndex_Unbounded(idx, p) == idx + 1

\* the index handleNext leaves
NextIndex(idx, p) == IF idx < Get(p).questions - 1 THEN idx + 1 ELSE idx

\* the index handlePrevious leaves
PreviousIndex(idx) == IF idx > 0 THEN idx - 1 ELSE idx

Navigate(idx) ==
    /\ currentQuestionIndex' = idx
    /\ localStorage' = [localStorage EXCEPT ![id] = SaveEffect(@, answers, idx)]
    /\ lastEvent' = Quiet
    /\ UNCHANGED <<now, queryCache, fetch, serverPaper, page, id, user, examPaper,
                   timeLeft, answers, isSubmitting, startTime, timer, calls,
                   pendingRedirect, everSet, attemptStart, expiries, routeVars>>

HandleNext ==
    /\ page = "exam"
    /\ IsSome(examPaper)
    /\ Navigate(NextIndex(currentQuestionIndex, examPaper))

HandlePrevious ==
    /\ page = "exam"
    /\ IsSome(examPaper)
    /\ Navigate(PreviousIndex(currentQuestionIndex))

\* a call of submitMutation.mutate in flight; the answers it carries are
\* recorded in the event that issued it
Call == [examPaper |-> id]

\* The Submit Exam button, shown on the last question, is used.
ManualSubmit ==
    /\ page = "exam"
    /\ IsSome(examPaper)
    /\ currentQuestionIndex = Get(examPaper).questions - 1
    /\ Len(calls) < MaxCalls
    /\ \E confirmed \in BOOLEAN :
          LET r == HandleSubmit(Closure, confirmed)
          IN /\ lastEvent' = Event("submit", r.kind, r.asked, "none",
                                  IF r.kind = "issued" THEN Some(Payload(answers)) ELSE None)
             /\ CASE r.kind = "issued" ->
                       /\ isSubmitting' = TRUE
                       /\ calls' = Append(calls, Call)
                       /\ UNCHANGED <<localStorage, page, returnPath, examPaper, timeLeft,
                                      currentQuestionIndex, answers, startTime, timer,
                                      expiries, fetch>>
                  [] r.kind = "login" ->
                       /\ NavigateTo("login")
                       /\ UNCHANGED calls
                  [] OTHER ->
                       /\ PanelSame
                       /\ UNCHANGED <<localStorage, page, returnPath, calls>>
    /\ UNCHANGED <<now, queryCache, serverPaper, id, user, pendingRedirect, everSet,
                   attemptStart, authStore, token, failureCount, acknowledged>>

\* The interval callback runs, one second after the previous one; a
\* background refetch takes at most MaxLoadDelay seconds.
Tick ==
    /\ page = "exam"
    /\ IsSome(timer)
    /\ now < MaxNow
    /\ IsSome(fetch) => now - Get(fetch) < MaxLoadDelay
    /\ Len(calls) < MaxCalls
    /\ now' = now + 1
    /\ IF timeLeft <= 1
       THEN \E confirmed \in BOOLEAN :
               LET c == Get(timer)
                   r == HandleSubmit(c, confirmed)
               IN /\ lastEvent' = Event("expiry", r.kind, r.asked, "none",
                                       IF r.kind = "issued" THEN Some(Payload(c.answers))
                                       ELSE None)
                  /\ CASE r.kind = "issued" ->
                            /\ isSubmitting' = TRUE
                            /\ calls' = Append(calls, Call)
                            /\ timer' = None
                            /\ timeLeft' = 0
                            /\ expiries' = expiries + 1
                            /\ UNCHANGED <<localStorage, page, returnPath, examPaper,
                                           currentQuestionIndex, answers, startTime, fetch>>
                       [] r.kind = "login" ->
                            /\ NavigateTo("login")
                            /\ UNCHANGED calls
                       [] OTHER ->
                            /\ timer' = None
                            /\ timeLeft' = 0
                            /\ expiries' = expiries + 1
                            /\ UNCHANGED <<localStorage, page, returnPath, examPaper,
                                           currentQuestionIndex, answers, isSubmitting,
                                           startTime, fetch, calls>>
       ELSE /\ timeLeft' = timeLeft - 1
            /\ lastEvent' = Quiet
            /\ UNCHANGED <<localStorage, page, returnPath, examPaper,
                           currentQuestionIndex, answers, isSubmitting, startTime, timer,
                           calls, expiries, fetch>>
    /\ UNCHANGED <<queryCache, serverPaper, id, user, pendingRedirect, everSet,
                   attemptStart, authStore, token, failureCount, acknowledged>>

RemoveAt(s, k) == [j \in 1..(Len(s) - 1) |-> IF j < k THEN s[j] ELSE s[j + 1]]

\* an onSuccess that removes the four keys of every exam
RemoveAttempt_EveryExam(ls, e) == [x \in ExamIds |-> ClearAttempt(ls[x])]

\* local storage after onSuccess removed the four keys of exam e
RemoveAttempt(ls, e) == [ls EXCEPT ![e] = ClearAttempt(@)]

\* The service acknowledges the k-th call in flight: onSuccess.
SubmitSuccess(k) ==
    /\ k \in 1..Len(calls)
    /\ calls' = RemoveAt(calls, k)
    /\ page' = "dashboard"
    /\ returnPath' = None
    /\ acknowledged' = [acknowledged EXCEPT ![calls[k].examPaper] = TRUE]
    /\ localStorage' = RemoveAttempt(localStorage, calls[k].examPaper)
    /\ IF page = "exam" THEN PanelGone ELSE PanelSame
    /\ attemptStart' = [attemptStart EXCEPT ![calls[k].examPaper] = None]
    /\ everSet' = [everSet EXCEPT ![calls[k].examPaper] =
                        [i \in 0..(MaxQuestions - 1) |-> None]]
    /\ lastEvent' = Event("success", "none", FALSE, "success", None)
    /\ UNCHANGED <<now, queryCache, serverPaper, id, user, pendingRedirect, authStore, token,
                   failureCount>>

ErrorKinds == {"unauthorized", "already", "generic"}

\* an onError that shows the destructive notice for every failure it reports
ErrorToast_AlwaysError(kind) == IF kind = "unauthorized" THEN "none" ELSE "error"

\* the notification onError shows: none, the default variant, the destructive one
ErrorToast(kind) ==
    CASE kind = "unauthorized" -> "none"
      [] kind = "already" -> "info"
      [] OTHER -> "error"

\* an onError that sends every failure but the duplicate one to the login page
ErrorNavigation_GenericLeaves(kind) == IF kind = "already" THEN "delayed" ELSE "login"

\* where onError sends the view: to the login page at once, to the dashboard
\* after the timeout, nowhere
ErrorNavigation(kind) ==
    CASE kind = "unauthorized" -> "login"
      [] kind = "already" -> "delayed"
      [] OTHER -> "stay"

\* The service rejects the k-th call in flight: onError.
SubmitError(k, kind) ==
    /\ k \in 1..Len(calls)
    /\ calls' = RemoveAt(calls, k)
    /\ lastEvent' = Event("error", kind, FALSE, ErrorToast(kind), None)
    /\ CASE ErrorNavigation(kind) = "login" ->
              /\ NavigateTo("login")
              /\ UNCHANGED pendingRedirect
         [] ErrorNavigation(kind) = "delayed" ->
              /\ isSubmitting' = FALSE
              /\ pendingRedirect' = TRUE
              /\ UNCHANGED <<page, returnPath, localStorage, examPaper, timeLeft,
                             currentQuestionIndex, answers, startTime, timer, expiries,
                             fetch>>
         [] OTHER ->
              /\ isSubmitting' = FALSE
              /\ UNCHANGED <<page, returnPath, localStorage, examPaper, timeLeft,
                             currentQuestionIndex, answers, startTime, timer, expiries,
                             fetch, pendingRedirect>>
    /\ UNCHANGED <<now, queryCache, serverPaper, id, user, everSet, attemptStart, authStore, token,
                   failureCount, acknowledged>>

\* The timeout of the already-submitted case fires.
RedirectFires ==
    /\ pendingRedirect
    /\ pendingRedirect' = FALSE
    /\ NavigateTo("dashboard")
    /\ lastEvent' = Quiet
    /\ UNCHANGED <<now, queryCache, serverPaper, id, user, calls, everSet, attemptStart,
                   authStore, token, failureCount, acknowledged>>

\* The student leaves the exam panel through a link of the layout.
Leave ==
    /\ page = "exam"
    /\ NavigateTo("exams")
    /\ lastEvent' = Quiet
    /\ UNCHANGED <<now, queryCache, serverPaper, id, user, calls, pendingRedirect,
                   everSet, attemptStart, authStore, token, failureCount, acknowledged>>

\* The exam panel of the exam in the address bar is opened.
Open == Mount(id, {"closed"})

FetchErrorKinds == {"unauthorized", "other"}

\* the route the query-error effect navigates to
ErrorTarget(kind) == IF kind = "unauthorized" THEN "login" ELSE "exams"

\* A request of the query fails.  While fewer than Retry requests of the
\* fetch have failed the query issues the request again; otherwise the
\* query is in error and the query-error effect navigates away.
FetchFailed(kind) ==
    /\ page = "exam"
    /\ IsSome(fetch)
    /\ failureCount' = failureCount + 1
    /\ IF failureCount < Retry
       THEN /\ lastEvent' = Quiet
            /\ PanelSame
            /\ UNCHANGED <<localStorage, page, returnPath>>
       ELSE /\ lastEvent' = Event("loadError", kind, FALSE,
                                 IF kind = "unauthorized" THEN "none" ELSE "error", None)
            /\ NavigateTo(ErrorTarget(kind))
    /\ UNCHANGED <<now, queryCache, serverPaper, id, user, calls, pendingRedirect,
                   everSet, attemptStart, authStore, token, acknowledged>>

\* a logout that removes the answers and question index of every exam only
ClearExamKeys_AnswersOnly(ls) ==
    [e \in ExamIds |-> [ls[e] EXCEPT !.answers = None, !.questionIndex = None]]

\* local storage after every key that starts with exam_ is removed
ClearExamKeys(ls) == [e \in ExamIds |-> EmptyStore]

\* The Logout entry of the sidebar is used: logout() and the page load of
\* the login page, which discards the running script.
Logout ==
    /\ page \in {"exam", "dashboard", "exams"}
    /\ user
    /\ user' = FALSE
    /\ authStore' = NoSession
    /\ token' = FALSE
    /\ localStorage' = ClearExamKeys(localStorage)
    /\ page' = "login"
    /\ returnPath' = None
    /\ PanelGone
    /\ queryCache' = [e \in ExamIds |-> None]
    /\ failureCount' = 0
    /\ calls' = <<>>
    /\ pendingRedirect' = FALSE
    /\ lastEvent' = Event("logout",
                          IF \A e \in ExamIds : localStorage[e] # EmptyStore
                          THEN "every"
                          ELSE IF \E e \in ExamIds : localStorage[e] # EmptyStore
                               THEN "some" ELSE "none",
                          FALSE, "none", None)
    /\ UNCHANGED <<now, serverPaper, id, everSet, attemptStart, acknowledged>>

Next ==
    \/ Open
    \/ ExamLoaded
    \/ \E kind \in FetchErrorKinds : FetchFailed(kind)
    \/ Logout
    \/ \E v \in Values : HandleAnswerChange(v)
    \/ HandleNext
    \/ HandlePrevious
    \/ ManualSubmit
    \/ Tick
    \/ \E k \in 1..MaxCalls : SubmitSuccess(k)
    \/ \E k \in 1..MaxCalls, kind \in ErrorKinds : SubmitError(k, kind)
    \/ RedirectFires
    \/ Leave

Spec == Init /\ [][Next]_vars

\* ------------------------------------------------------ resumed attempts
\* the seconds between the start of an interrupted attempt and its reopening
ResumeElapsed(p) ==
    {1, p.duration * SecondsPerMinute - 1, p.duration * SecondsPerMinute,
     p.duration * SecondsPerMinute + 1}

\* The browser after a reload interrupted an attempt that started at second
\* 0: no cleanup ran, so local storage holds what the timer effect and the
\* save effect of that session wrote; the script state and the query cache
\* are gone.
InitResume ==
    /\ \E p \in Papers(1), v \in {""} \cup Values, elapsed \in 0..MaxNow :
          /\ elapsed \in ResumeElapsed(p)
          /\ now = elapsed
          /\ serverPaper = [e \in ExamIds |-> p]
          /\ LET as == IF v = "" THEN <<>> ELSE <<NewAnswer(0, v)>>
             IN /\ localStorage = [e \in ExamIds |->
                      SaveEffect(TimerEffectSave(EmptyStore, Duration(Some(p)), 0),
                                 as, InitialQuestionIndex)]
                /\ everSet = [e \in ExamIds |-> [i \in 0..(MaxQuestions - 1) |->
                                  IF i = 0 /\ v # "" THEN Some(v) ELSE None]]
    /\ queryCache = [e \in ExamIds |-> None]
    /\ fetch = None
    /\ page = "closed"
    /\ id = "e1"
    /\ user = TRUE
    /\ examPaper = None
    /\ timeLeft = InitialTimeLeft
    /\ currentQuestionIndex = InitialQuestionIndex
    /\ answers = <<>>
    /\ isSubmitting = FALSE
    /\ startTime = 0
    /\ timer = None
    /\ calls = <<>>
    /\ pendingRedirect = FALSE
    /\ lastEvent = Quiet
    /\ attemptStart = [e \in ExamIds |-> Some(0)]
    /\ expiries = 0
    /\ authStore = StoredSession("s1")
    /\ token = TRUE
    /\ returnPath = None
    /\ failureCount = 0
    /\ acknowledged = [e \in ExamIds |-> FALSE]

\* sessions of a one-question exam that resume an interrupted attempt
SpecResume == InitResume /\ [][Next \/ LoadDelay]_vars

\* ---------------------------------------------------- refetched definition
\* An administrator updates the paper on the service.
PaperEdited ==
    /\ serverPaper[id].rev < MaxRevisions
    /\ \E d \in 1..MaxDuration :
          serverPaper' = [serverPaper EXCEPT ![id] = [@ EXCEPT !.duration = d, !.rev = @ + 1]]
    /\ lastEvent' = Quiet
    /\ UNCHANGED <<now, localStorage, queryCache, fetch, page, id, user, panelVars, calls,
                   pendingRedirect, everSet, attemptStart, expiries, routeVars>>

\* The network comes back while the query data is stale: the query refetches.
Reconnect ==
    /\ page = "exam"
    /\ IsSome(examPaper)
    /\ ~IsSome(fetch)
    /\ IsStale(queryCache[id])
    /\ fetch' = Some(now)
    /\ failureCount' = 0
    /\ lastEvent' = Quiet
    /\ UNCHANGED <<now, localStorage, queryCache, serverPaper, page, id, user, panelVars,
                   calls, pendingRedirect, everSet, attemptStart, expiries, authStore, token,
                   returnPath, acknowledged>>

\* A background refetch succeeds.  Equal data keeps the examPaper object;
\* changed data is a new object, so the timer effect is cleaned up and runs
\* again in the new render.
Refetched ==
    /\ page = "exam"
    /\ IsSome(fetch)
    /\ IsSome(examPaper)
    /\ LET p == Some(serverPaper[id])
       IN /\ queryCache' = [queryCache EXCEPT ![id] = CacheEntry(Get(p), now)]
          /\ IF p = examPaper
             THEN UNCHANGED <<examPaper, timeLeft, timer, localStorage>>
             ELSE /\ examPaper' = p
                  /\ RunTimerEffect(p, TimerRuns(examPaper))
    /\ fetch' = None
    /\ failureCount' = 0
    /\ lastEvent' = Quiet
    /\ UNCHANGED <<now, serverPaper, page, id, user, currentQuestionIndex, answers,
                   isSubmitting, startTime, calls, pendingRedirect, everSet,
                   attemptStart, expiries, authStore, token, returnPath, acknowledged>>

\* The exam panel stays open while no interval runs, until the query data
\* is stale.
Idle ==
    /\ page = "exam"
    /\ IsSome(examPaper)
    /\ ~IsSome(timer)
    /\ ~IsSome(fetch)
    /\ ~IsStale(queryCache[id])
    /\ Get(queryCache[id]).updatedAt + StaleTime <= MaxNow
    /\ now' = Get(queryCache[id]).updatedAt + StaleTime
    /\ lastEvent' = Quiet
    /\ UNCHANGED <<localStorage, queryCache, fetch, serverPaper, page, id, user, panelVars,
                   calls, pendingRedirect, everSet, attemptStart, expiries, routeVars>>

InitRefetch == Init0(1, {"none", "fresh", "stale"})

NextRefetch ==
    \/ Next
    \/ LoadDelay
    \/ PaperEdited
    \/ Reconnect
    \/ Refetched
    \/ Idle

\* sessions of a one-question exam whose definition can change
SpecRefetch == InitRefetch /\ [][NextRefetch]_vars

\* -------------------------------------------------------- logout leftovers
\* what an earlier session of another exam can have left in local storage:
\* nothing, the two keys an unmounted panel leaves, the four keys a closed
\* tab leaves
Leftovers ==
    {EmptyStore,
     SaveEffect(EmptyStore, <<NewAnswer(0, "B")>>, InitialQuestionIndex),
     SaveEffect(TimerEffectSave(EmptyStore, SecondsPerMinute, 0), <<>>,
                InitialQuestionIndex)}

InitLogout == InitLeft(1, {"none", "fresh"}, Leftovers)

\* sessions of a one-question exam in a browser that holds entries of
\* another exam
SpecLogout == InitLogout /\ [][Next]_vars

\* ------------------------------------------------------------ page reload
\* The page is reloaded while the exam panel is shown: the script state, the
\* query cache and the callbacks of calls in flight are gone, no cleanup
\* runs, AuthProvider restores the user from local storage and the panel is
\* mounted again.
Reload ==
    /\ page = "exam"
    /\ authStore.user /\ authStore.token
    /\ MountPanel(id, None)
    /\ queryCache' = [e \in ExamIds |-> None]
    /\ calls' = <<>>
    /\ pendingRedirect' = FALSE
    /\ lastEvent' = Event("reload", "none", FALSE, "none", None)
    /\ UNCHANGED <<now, serverPaper, user, everSet, authStore, token, acknowledged>>

NextReload ==
    \/ Open
    \/ ExamLoaded
    \/ \E v \in Values : HandleAnswerChange(v)
    \/ HandleNext
    \/ HandlePrevious
    \/ ManualSubmit
    \/ \E k \in 1..MaxCalls : SubmitSuccess(k)
    \/ \E k \in 1..MaxCalls, kind \in ErrorKinds : SubmitError(k, kind)
    \/ Reload

\* sessions that are interrupted by reloads, the clock standing still
SpecReload == Init /\ [][NextReload]_vars

\* An administrator updates the paper on the service and drops its last
\* question.
PaperShortened ==
    /\ serverPaper[id].rev < MaxRevisions
    /\ serverPaper[id].questions > 1
    /\ serverPaper' = [serverPaper EXCEPT ![id] =
                          [@ EXCEPT !.questions = @ - 1, !.rev = @ + 1]]
    /\ lastEvent' = Quiet
    /\ UNCHANGED <<now, localStorage, queryCache, fetch, page, id, user, panelVars, calls,
                   pendingRedirect, everSet, attemptStart, expiries, routeVars>>

\* sessions that are interrupted by reloads while the paper is being edited
SpecRevise == Init /\ [][NextReload \/ PaperShortened]_vars

\* -------------------------------------------------------- suspended timers
\* the deadline of the session: its start plus the duration of the paper
Deadline == startTime + Duration(examPaper)

\* the seconds the countdown lags behind the clock
Lag == timeLeft - (Deadline - now)

\* The tab is suspended for k seconds: the clock advances and the interval
\* callbacks of that time do not run.
Suspend(k) ==
    /\ page = "exam"
    /\ IsSome(timer)
    /\ Lag + k <= MaxMissed
    /\ now + k <= MaxNow
    /\ now' = now + k
    /\ lastEvent' = Quiet
    /\ UNCHANGED <<localStorage, queryCache, fetch, serverPaper, page, id, user, panelVars,
                   calls, pendingRedirect, everSet, attemptStart, expiries, routeVars>>

InitSuspend == Init0(1, {"none", "fresh"})

\* sessions of a one-question exam in a tab that can be suspended
SpecSuspend == InitSuspend /\ [][Next \/ \E k \in 2..MaxMissed : Suspend(k)]_vars

\* ------------------------------------------------------------ AuthProvider
\* a token effect that removes the key whatever the token is
TokenEffect_RemoveOnly(st, tok) == [st EXCEPT !.token = FALSE]

\* local storage after the token effect of a render with token tok: the
\* 'token' key is set when there is a token and removed when there is none
TokenEffect(st, tok) == [st EXCEPT !.token = tok]

\* initAuth: a stored token with a stored user that parses and has _id and
\* role is taken over; anything else is removed
InitAuth(st) ==
    IF st.token /\ st.user /\ st.valid
    THEN [store |-> st, user |-> TRUE, token |-> TRUE, outcome |-> "restored"]
    ELSE [store |-> NoSession, user |-> FALSE, token |-> FALSE,
          outcome |-> IF st = NoSession THEN "empty" ELSE "cleared"]

\* no value was set by the student who is logged in
NothingSet == [e \in ExamIds |-> [i \in 0..(MaxQuestions - 1) |-> None]]

\* AuthProvider mounts: initAuth, the token effect of the first render (no
\* token yet) and the token effect of the render with the token initAuth set.
MountAuthProvider ==
    LET r == InitAuth(authStore)
    IN /\ user' = r.user
       /\ token' = r.token
       /\ authStore' = TokenEffect(TokenEffect(r.store, FALSE), r.token)
       /\ lastEvent' = Event("init", r.outcome, FALSE, "none", None)

\* The application is opened at /dashboard: ProtectedRoute shows the login
\* page when initAuth found no user.
Boot ==
    /\ page = "boot"
    /\ MountAuthProvider
    /\ page' = IF InitAuth(authStore).user THEN "dashboard" ELSE "login"
    /\ UNCHANGED <<now, localStorage, queryCache, fetch, serverPaper, id, panelVars, calls,
                   pendingRedirect, everSet, attemptStart, expiries, returnPath,
                   failureCount, acknowledged>>

\* The address /login is opened in the tab: the running script, the query
\* cache and the callbacks of calls in flight are gone.
LoadLogin ==
    /\ page \in {"dashboard", "exams"}
    /\ MountAuthProvider
    /\ page' = "login"
    /\ returnPath' = None
    /\ queryCache' = [e \in ExamIds |-> None]
    /\ calls' = <<>>
    /\ pendingRedirect' = FALSE
    /\ UNCHANGED <<now, localStorage, fetch, serverPaper, id, panelVars, everSet,
                   attemptStart, expiries, failureCount, acknowledged>>

\* login(email, password) of the context, for the account of student s: the
\* service accepts (ok) or the request or the validation of its answer fails.
AuthLogin(s, ok) ==
    /\ page = "login"
    /\ user' = ok
    /\ token' = ok
    /\ authStore' = TokenEffect(IF ok THEN StoredSession(s) ELSE NoSession, ok)
    /\ everSet' = IF ok /\ s # authStore.student THEN NothingSet ELSE everSet
    /\ lastEvent' = Event("login", IF ok THEN "ok" ELSE "failed", FALSE, "none", None)
    /\ UNCHANGED <<now, localStorage, queryCache, fetch, serverPaper, page, id, panelVars,
                   calls, pendingRedirect, attemptStart, expiries, returnPath,
                   failureCount, acknowledged>>

LoginOutcomes == {"ok", "role", "rejected"}

\* handleSubmit of the login form for the account of student s: the service
\* accepts, the account has another role, or the service answers 401, on
\* which the interceptor of AuthProvider logs out when it holds a token.
LoginFormSubmit(s, outcome) ==
    /\ page = "login"
    /\ CASE outcome = "ok" ->
              /\ authStore' = StoredSession(s)
              /\ page' = IF user THEN "dashboard" ELSE "login"
              /\ everSet' = IF s # authStore.student THEN NothingSet ELSE everSet
              /\ lastEvent' = Event("loginForm", "ok", FALSE, "success", None)
              /\ UNCHANGED <<user, token, localStorage, queryCache, calls, pendingRedirect>>
         [] outcome = "rejected" /\ token ->
              /\ user' = FALSE
              /\ token' = FALSE
              /\ authStore' = NoSession
              /\ localStorage' = ClearExamKeys(localStorage)
              /\ queryCache' = [e \in ExamIds |-> None]
              /\ calls' = <<>>
              /\ pendingRedirect' = FALSE
              /\ lastEvent' = Event("loginForm", "logout", FALSE, "error", None)
              /\ UNCHANGED <<page, everSet>>
         [] OTHER ->
              /\ lastEvent' = Event("loginForm", "failed", FALSE, "error", None)
              /\ UNCHANGED <<user, token, authStore, page, everSet, localStorage,
                             queryCache, calls, pendingRedirect>>
    /\ UNCHANGED <<now, fetch, serverPaper, id, panelVars, attemptStart, expiries,
                   returnPath, failureCount, acknowledged>>

\* The exam is opened from the dashboard or from the list of exams.
Reopen == Mount(id, {"dashboard", "exams"})

\* what the 'user' and 'token' keys can hold when the application is opened
StoredStates ==
    {NoSession,
     StoredSession("s1"),
     [StoredSession("s1") EXCEPT !.token = FALSE],
     [NoSession EXCEPT !.token = TRUE],
     [StoredSession("s1") EXCEPT !.valid = FALSE, !.student = "none"]}

\* The browser before the application is opened.
InitBrowser ==
    /\ now = 0
    /\ localStorage = [e \in ExamIds |-> EmptyStore]
    /\ \E p \in Papers(1) : serverPaper = [e \in ExamIds |-> p]
    /\ queryCache = [e \in ExamIds |-> None]
    /\ fetch = None
    /\ page = "boot"
    /\ id = "e1"
    /\ user = FALSE
    /\ token = FALSE
    /\ authStore \in StoredStates
    /\ examPaper = None
    /\ timeLeft = InitialTimeLeft
    /\ currentQuestionIndex = InitialQuestionIndex
    /\ answers = <<>>
    /\ isSubmitting = FALSE
    /\ startTime = 0
    /\ timer = None
    /\ calls = <<>>
    /\ pendingRedirect = FALSE
    /\ lastEvent = Quiet
    /\ everSet = NothingSet
    /\ attemptStart = [e \in ExamIds |-> None]
    /\ expiries = 0
    /\ returnPath = None
    /\ failureCount = 0
    /\ acknowledged = [e \in ExamIds |-> FALSE]

NextAuth ==
    \/ Boot
    \/ LoadLogin
    \/ \E s \in Students, ok \in BOOLEAN : AuthLogin(s, ok)
    \/ \E s \in Students, outcome \in LoginOutcomes : LoginFormSubmit(s, outcome)
    \/ Logout
    \/ Reopen
    \/ ExamLoaded
    \/ \E kind \in FetchErrorKinds : FetchFailed(kind)
    \/ \E v \in Values : HandleAnswerChange(v)
    \/ ManualSubmit
    \/ \E k \in 1..MaxCalls : SubmitSuccess(k)
    \/ \E k \in 1..MaxCalls, kind \in ErrorKinds : SubmitError(k, kind)
    \/ RedirectFires
    \/ Leave

\* sessions of one browser in which students log in and out, the clock
\* standing still
SpecAuth == InitBrowser /\ [][NextAuth]_vars

\* sessions of a one-question exam in which a scheduled redirect fires
SpecRedirect == InitSuspend /\ [][Next]_vars /\ WF_vars(RedirectFires)

\* ------------------------------------------------------------- properties
\* the answers of the call the last event issued
LastPayload == Get(lastEvent.payload)

\* the questions of the paper on screen
Questions == 0..(Get(examPaper).questions - 1)

\* some question of the paper has no entry in the answer list
HasUnanswered == \E i \in Questions : FindIndex(answers, i) = 0

\* C1: in every state at most one submission call is outstanding, whatever
\* the interleaving of manual submits, ticks and expiry.
C1_OneOutstandingCall == Len(calls) <= 1

\* C2: an expiry that finds the session active (no submission in flight)
\* puts it in submitting and issues the call, and asks no confirmation.
C2_ExpiryForcesSubmission ==
    [][(lastEvent'.op = "expiry" /\ page = "exam" /\ ~isSubmitting)
          => /\ isSubmitting'
             /\ Len(calls') = Len(calls) + 1
             /\ ~lastEvent'.asked]_vars

\* C3: the call issued by the expiry carries the answer list as it stands
\* at the moment of expiry.
C3_ExpirySubmitsCurrentAnswers ==
    (lastEvent.op = "expiry" /\ lastEvent.outcome = "issued" /\ page = "exam")
        => LastPayload = Payload(answers)

\* C4: getAnswer(i) is the value most recently set for index i, the empty
\* default when i was never set, whatever was set for other indices.
C4_GetAnswerReturnsLastSet ==
    page = "exam" =>
        \A i \in 0..(MaxQuestions - 1) :
            GetAnswer(answers, i) =
                IF IsSome(everSet[id][i]) THEN Get(everSet[id][i]) ELSE ""

\* C4 witness: both questions answered, question 1 first, with different values
C4_Witness ==
    /\ page = "exam"
    /\ Len(answers) = 2
    /\ answers[1].questionIndex = 1
    /\ GetAnswer(answers, 0) = "C"
    /\ GetAnswer(answers, 1) = "B"

\* the entries of a parsed answer list for question i
EntriesFor(as, i) == {k \in 1..Len(as) : as[k].questionIndex = i}

\* C5: in every state of a mounted session, so after every setAnswer, next
\* and previous, the side-store entries of the attempt read back as the
\* in-memory answer list and question index, with one entry per answered
\* question holding its latest value.
C5_SideStoreMirrorsMemory ==
    page = "exam" =>
        /\ IsSome(localStorage[id].answers)
        /\ IsSome(localStorage[id].questionIndex)
        /\ JSONParse(Get(localStorage[id].answers)) = answers
        /\ ParseInt(Get(localStorage[id].questionIndex)) = currentQuestionIndex
        /\ \A i \in 0..(MaxQuestions - 1) :
              LET stored == JSONParse(Get(localStorage[id].answers))
              IN IF IsSome(everSet[id][i])
                 THEN /\ Cardinality(EntriesFor(stored, i)) = 1
                      /\ \A k \in EntriesFor(stored, i) :
                            stored[k].selectedOption = Get(everSet[id][i])
                 ELSE EntriesFor(stored, i) = {}

\* C5 witness: question 0 holds C after a move to question 1 and back
C5_Witness ==
    /\ page = "exam"
    /\ currentQuestionIndex = 0
    /\ Len(answers) = 2
    /\ answers[1].questionIndex = 1
    /\ localStorage[id].questionIndex = Some(<<0>>)
    /\ GetAnswer(JSONParse(Get(localStorage[id].answers)), 0) = "C"

\* C6: the expiry callback runs at most once in a mounted session and no
\* interval runs after it.
C6_ExpiryOnceThenStopped ==
    /\ expiries <= 1
    /\ expiries = 1 => ~IsSome(timer)

\* C7: the expiry fires between 60*D seconds and 60*D + 1 seconds after the
\* session start.
C7_ExpiryWithinOneTick ==
    (lastEvent.op = "expiry" /\ page = "exam") =>
        /\ now - startTime >= Duration(examPaper)
        /\ now - startTime <= Duration(examPaper) + 1

C9_EmptyEntryForUnanswered ==
    (lastEvent.op = "expiry" /\ lastEvent.outcome = "issued" /\ page = "exam") =>
        \A i \in Questions :
            ~IsSome(everSet[id][i]) =>
                \E k \in 1..Len(LastPayload) :
                    /\ LastPayload[k].questionIndex = i
                    /\ LastPayload[k].selectedOption = ""

\* C9 amended: the call issued by an expiry has no entry for a question
\* that was never answered.
C9_NoEntryForUnanswered ==
    (lastEvent.op = "expiry" /\ lastEvent.outcome = "issued" /\ page = "exam") =>
        \A i \in Questions :
            ~IsSome(everSet[id][i]) =>
                \A k \in 1..Len(LastPayload) :
                    LastPayload[k].questionIndex # i

\* C9 witness: a one-question exam expired unanswered and the call was issued
C9_Witness ==
    /\ lastEvent.op = "expiry"
    /\ lastEvent.outcome = "issued"
    /\ page = "exam"
    /\ Get(examPaper).questions = 1
    /\ ~IsSome(everSet[id][0])
    /\ LastPayload = <<>>

\* C10: a session resumed when the time since the start of the attempt is at
\* least the duration has expired at once: no time is left, no interval runs.
C10_ResumePastDeadlineExpires ==
    (/\ page = "exam"
     /\ IsSome(examPaper)
     /\ IsSome(attemptStart[id])
     /\ startTime - Get(attemptStart[id]) >= Duration(examPaper))
        => /\ timeLeft = 0
           /\ ~IsSome(timer)

\* C11: while the session is active the remaining time never increases from
\* one state to the next, is never below zero, and is zero at expiry.
C11_TimeLeftNeverIncreases ==
    [][(page = "exam" /\ IsSome(examPaper) /\ page' = "exam")
          => /\ timeLeft' <= timeLeft
             /\ timeLeft' >= 0
             /\ lastEvent'.op = "expiry" => timeLeft' = 0]_vars

C13_SubmittedIsTerminal ==
    [][\A e \in ExamIds :
          acknowledged'[e]
             => /\ localStorage'[e] = EmptyStore
                /\ ~IsSome(timer')
                /\ page' # "exam"
                /\ Len(calls') <= Len(calls)
                /\ expiries' <= expiries]_vars

\* C13 witness: after the acknowledgement of one call a second call of the
\* same attempt was rejected as already submitted, and nothing is stored
C13_Witness ==
    /\ acknowledged[id]
    /\ lastEvent.op = "error"
    /\ lastEvent.outcome = "already"
    /\ localStorage[id] = EmptyStore
    /\ calls = <<>>

\* C14: after a logout no side-store entry of any exam remains and the
\* stored user and token are removed.
C14_LogoutClearsEveryExam ==
    lastEvent.op = "logout" =>
        /\ \A e \in ExamIds : localStorage[e] = EmptyStore
        /\ ~authStore.user
        /\ ~authStore.token

\* C14 witness: the logout found entries of both exams in local storage
C14_Witness ==
    /\ lastEvent.op = "logout"
    /\ lastEvent.outcome = "every"
    /\ page = "login"
    /\ \A e \in ExamIds : localStorage[e] = EmptyStore

\* C15: a page reload leaves the session with the answer list and the
\* question index it had in memory just before, and local storage still
\* reads back as those values.
C15_ReloadRestoresSession ==
    [][lastEvent'.op = "reload"
          => /\ answers' = answers
             /\ currentQuestionIndex' = currentQuestionIndex
             /\ IsSome(localStorage'[id].answers)
             /\ IsSome(localStorage'[id].questionIndex)
             /\ JSONParse(Get(localStorage'[id].answers)) = answers
             /\ ParseInt(Get(localStorage'[id].questionIndex)) = currentQuestionIndex]_vars

\* C15 witness: a reload with both questions answered, question 1 first,
\* while question 1 is shown
C15_Witness ==
    /\ lastEvent.op = "reload"
    /\ page = "exam"
    /\ Len(answers) = 2
    /\ answers[1].questionIndex = 1
    /\ answers[2].selectedOption = "C"
    /\ currentQuestionIndex = 1

\* C16: after every tick the remaining time is the time left until the
\* deadline computed at the start, clamped at zero.
C16_TickRecomputesFromDeadline ==
    [][(Tick /\ page' = "exam")
          => timeLeft' = IF Deadline - now' > 0 THEN Deadline - now' ELSE 0]_vars

\* C17: while the interval runs, so after every tick, the side-store holds
\* the in-memory remaining time and the session start.
C17_StoreHoldsTimeLeftAfterTick ==
    (page = "exam" /\ IsSome(timer)) =>
        /\ IsSome(localStorage[id].timeLeft)
        /\ IsSome(localStorage[id].startTime)
        /\ ParseInt(Get(localStorage[id].timeLeft)) = timeLeft
        /\ ParseInt(Get(localStorage[id].startTime)) = startTime

\* C18: a manual submit request made while a submission call is outstanding
\* issues no call, asks no confirmation and changes nothing of the session.
C18_SecondSubmitIsNoOp ==
    [][(lastEvent'.op = "submit" /\ page = "exam" /\ Len(calls) > 0)
          => /\ calls' = calls
             /\ ~lastEvent'.asked
             /\ page' = "exam"
             /\ UNCHANGED <<answers, currentQuestionIndex, timeLeft, isSubmitting>>]_vars

\* C19: when the failure of the definition fetch is surfaced, exactly one
\* request of the fetch has been issued.
C19_FetchFailureNotRetried ==
    lastEvent.op = "loadError" => failureCount = 1

\* C20: in the loading state no interval runs and no call is issued; the
\* session becomes active only by a successful fetch, and not once a request
\* of the fetch has failed; a surfaced failure ends the session, at the login
\* page with the exam-panel path as return path when it is unauthorized, at
\* the exam list with an error notice otherwise; a session that has left the
\* panel does not come back.
C20_LoadingFailsOnAnyError ==
    [][/\ (page = "exam" /\ ~IsSome(examPaper))
            => /\ ~IsSome(timer)
               /\ Len(calls') <= Len(calls)
               /\ (page' = "exam" /\ IsSome(examPaper'))
                     => /\ IsSome(fetch)
                        /\ failureCount = 0
                        /\ examPaper' = Some(serverPaper[id])
               /\ lastEvent'.op = "loadError"
                     => /\ page' # "exam"
                        /\ ~IsSome(timer')
                        /\ lastEvent'.outcome = "unauthorized"
                              => page' = "login" /\ returnPath' = Some(id)
                        /\ lastEvent'.outcome # "unauthorized"
                              => page' = "exams" /\ lastEvent'.toast = "error"
       /\ page \in {"login", "exams"} => page' # "exam"]_vars

\* C21: a generic failure of a call, reported to a mounted panel, leaves the
\* panel shown with the error notice, clears the in-flight flag, leaves the
\* answers, the index and the side-store as they were, and the next manual
\* submit issues a call.
C21_GenericFailureIsRetryable ==
    [][(lastEvent'.op = "error" /\ lastEvent'.outcome = "generic" /\ page = "exam")
          => /\ page' = "exam"
             /\ lastEvent'.toast = "error"
             /\ ~isSubmitting'
             /\ ~pendingRedirect' \/ pendingRedirect
             /\ UNCHANGED <<answers, currentQuestionIndex, localStorage, examPaper>>
             /\ HandleSubmit([answers |-> answers', isSubmitting |-> isSubmitting',
                              user |-> user', examPaper |-> examPaper'], TRUE).kind
                   = "issued"]_vars

\* C21 witness: the only call of a session with an answer failed generically
C21_Witness ==
    /\ lastEvent.op = "error"
    /\ lastEvent.outcome = "generic"
    /\ page = "exam"
    /\ ~isSubmitting
    /\ calls = <<>>
    /\ Len(answers) = 1
    /\ IsSome(localStorage[id].answers)

\* C22: an already-submitted failure shows the informational notice, never
\* the error notice, and schedules a redirect; a scheduled redirect leads to
\* the dashboard unless the page is unloaded by a logout first.
C22_AlreadySubmittedIsBenign ==
    /\ [][(lastEvent'.op = "error" /\ lastEvent'.outcome = "already")
             => /\ lastEvent'.toast = "info"
                /\ pendingRedirect']_vars
    /\ pendingRedirect ~> (page = "dashboard" \/ ~user)

\* C22 witness: the informational notice is shown on the panel and the
\* redirect is scheduled
C22_Witness ==
    /\ lastEvent.op = "error"
    /\ lastEvent.outcome = "already"
    /\ lastEvent.toast = "info"
    /\ pendingRedirect
    /\ page = "exam"

\* C23: after a call failed as unauthorized or as already submitted, no
\* step of the session issues another call.
C23_FailedIsTerminal ==
    [][((pendingRedirect /\ page = "exam") \/ page = "login")
          => Len(calls') <= Len(calls)]_vars

\* C24: after a 401 on the definition fetch or on a submission call the
\* stored user and token are removed, no user is authenticated, and the
\* login page is shown with the exam-panel path as return path.
C24_UnauthorizedClearsSession ==
    (lastEvent.op \in {"error", "loadError"} /\ lastEvent.outcome = "unauthorized")
        => /\ ~authStore.user
           /\ ~authStore.token
           /\ ~user
           /\ page = "login"
           /\ returnPath = Some(id)

\* C25: every failure outcome shows a notification: a surfaced fetch
\* failure, a failed call, a submit without an authenticated user.
C25_EveryFailureIsNotified ==
    /\ lastEvent.op \in {"error", "loadError"} => lastEvent.toast # "none"
    /\ (lastEvent.op \in {"submit", "expiry"} /\ lastEvent.outcome = "login")
          => lastEvent.toast # "none"

\* the keys of the side-store of an exam
StoreKeys == {"answers", "questionIndex", "timeLeft", "startTime"}

\* C26: once the panel is unmounted no interval is left, and while it stays
\* unmounted no step is a tick or an expiry and no step stores a value under
\* a key of the side-store; the unmount itself keeps every call in flight,
\* and afterwards a call leaves the calls in flight only by completing
\* (or with the page, when a logout unloads it).
C26_UnmountStopsTimerNotCall ==
    [][/\ page' # "exam" => timer' = None
       /\ (page # "exam" /\ page' # "exam")
             => /\ now' = now
                /\ timeLeft' = timeLeft
                /\ lastEvent'.op # "expiry"
                /\ \A e \in ExamIds : \A k \in StoreKeys :
                      localStorage'[e][k] \in {localStorage[e][k], None}
                /\ Len(calls') < Len(calls)
                      => lastEvent'.op \in {"success", "error", "logout"}
       /\ (page = "exam" /\ page' # "exam"
             /\ lastEvent'.op \notin {"success", "error", "logout"})
             => calls' = calls]_vars

\* C26 witness: the panel was left, through a link, with its timer running,
\* an answer stored and a call in flight
C26_Witness ==
    /\ page = "exams"
    /\ Len(calls) = 1
    /\ timer = None
    /\ localStorage[id].timeLeft = None
    /\ IsSome(localStorage[id].answers)

\* C27: every step of a session on one exam other than a logout (mount and
\* restore, timer start, answer edit, navigation, tick, submission, its
\* success or failure, unmount) leaves the side-store entries of every other
\* exam as they were.
C27_KeysScopedPerExam ==
    [][lastEvent'.op # "logout"
          => \A e \in ExamIds : e # id' => localStorage'[e] = localStorage[e]]_vars

\* C27 witness: the attempt on one exam was submitted and its keys removed
\* while the entries another exam left behind are still stored
C27_Witness ==
    /\ lastEvent.op = "success"
    /\ acknowledged[id]
    /\ localStorage[id] = EmptyStore
    /\ \E e \in ExamIds :
          /\ e # id
          /\ IsSome(localStorage[e].answers)
          /\ IsSome(localStorage[e].timeLeft)

\* C28: while a paper is shown the answer list has only entries for
\* questions of the paper and at most one for each, so not more entries
\* than questions.
C28_OneEntryPerQuestion ==
    (page = "exam" /\ IsSome(examPaper))
        => /\ \A k \in 1..Len(answers) : answers[k].questionIndex \in Questions
           /\ \A i \in Questions : Cardinality(EntriesFor(answers, i)) <= 1
           /\ Len(answers) <= Get(examPaper).questions

\* C29: every answer a session of an exam starts or goes on with was set
\* by the student who is logged in.
C29_NoAnswersFromAnotherStudent ==
    page = "exam"
        => \A i \in 0..(MaxQuestions - 1) :
              FindIndex(answers, i) # 0 => IsSome(everSet[id][i])

\* C30: once AuthProvider is initialised, the user and the token it holds
\* are both present or both absent, and so are the stored user and the
\* stored token, the stored user being valid; initAuth leaves nothing stored
\* when it does not take the session over, and a failed login leaves
\* nothing stored and nothing in memory.
C30_UserAndTokenTogether ==
    /\ page # "boot"
          => /\ user <=> token
             /\ authStore.user <=> authStore.token
             /\ authStore.user => authStore.valid
    /\ (lastEvent.op = "init" /\ lastEvent.outcome # "restored")
          => authStore = NoSession /\ ~user /\ ~token
    /\ (lastEvent.op = "init" /\ lastEvent.outcome = "restored")
          => authStore.user /\ authStore.token /\ user /\ token
    /\ (lastEvent.op = "login" /\ lastEvent.outcome = "failed")
          => authStore = NoSession /\ ~user /\ ~token
    /\ (lastEvent.op = "login" /\ lastEvent.outcome = "ok")
          => authStore.user /\ authStore.token /\ user /\ token
    /\ lastEvent.op = "logout" => authStore = NoSession /\ ~user /\ ~token

\* C30 witness: initAuth found a partial or invalid session stored and
\* removed it
C30_Witness ==
    /\ lastEvent.op = "init"
    /\ lastEvent.outcome = "cleared"
    /\ authStore = NoSession
    /\ ~user
    /\ ~token
    /\ page = "login"
====
